---------------------------- MODULE Spec2Model ----------------------------
(***************************************************************************)
(* A model of copads/genetic.py: Chromosome (rmutate, kmutate), Organism   *)
(* (status, setStatus, clone, mutation_scheme, fitness), Population        *)
(* (generation_step and its phases, prepopulation_control, freeze) and    *)
(* the free function crossover.                                            *)
(*                                                                         *)
(* Python objects live in a heap: a list object, a Chromosome and an       *)
(* Organism are addresses (indices) into `lists`, `chromosomes` and        *)
(* `organisms`, so that two names for one object are one address.          *)
(***************************************************************************)
EXTENDS Integers, Sequences, FiniteSets, TLC

VARIABLES
    lists,        \* heap of list objects: address -> sequence of symbols
    chromosomes,  \* heap of Chromosome objects: [sequence, base, background_mutation]
    organisms,    \* heap of Organism objects: [genome] (instance attributes only)
    status,       \* Organism.status, the dict defined in the class body
    agents,       \* Population.agents: sequence of Organism addresses
    goal,         \* Population.goal
    generation,   \* Population.generation
    pc,           \* position inside generation_step ("idle": no call running)
    x,            \* loop index of the running phase (mating round, organism)
    temp,         \* mating's local list of offspring
    trace,        \* phases entered by the running / last generation_step call
    entry,        \* value of generation when the running / last call began
    completed,    \* number of generation_step calls that returned a report
    outcome,      \* result of the last call: "none", "raised" or a report
    last          \* the last operation applied (for frame conditions)

vars == <<lists, chromosomes, organisms, status, agents, goal, generation,
          pc, x, temp, trace, entry, completed, outcome, last>>

heap == <<lists, chromosomes, organisms>>
population == <<agents, goal, generation, pc, x, temp, trace, entry,
                completed, outcome>>

-----------------------------------------------------------------------------
(* Bounds of the model.                                                    *)

MaxLen == 3
MaxChromosomes == 4
MaxOps == 2

(* Rates are held in units of 1/RateUnit: 0.0001 is 1, 0.1 is 1000.        *)
RateUnit == 10000
DefaultBackground == 1
MutationSchemeRate == 1000
\* a background rate that brings mutation_scheme's rate to 1.0
HighBackground == RateUnit - MutationSchemeRate
\* the rates rmutate is called with: 0.1, and the one summing to 1.0
Rates == {MutationSchemeRate, RateUnit - DefaultBackground}

DefaultBase == <<1, 0>>

(* Status numbers are held in hundredths: 100.0 is 10000, 100.1 is 10010.  *)
FullVitality == 10000
VitalityCeiling == 10010
MaxOrganisms == 2
MaxPop == 2
MaxGenerations == 2

(* prepopulation_control's thresholds.                                     *)
CapTrigger == 2001
CapSize == 2000
AdoptAbove == 21

-----------------------------------------------------------------------------
(* Sequences, with Python's slicing.                                       *)

Min(a, b) == IF a < b THEN a ELSE b

Range(s) == {s[i] : i \in 1..Len(s)}

\* s[:p] for p >= 0
Head_(s, p) == SubSeq(s, 1, Min(p, Len(s)))

\* s[p:] for p >= 0
Tail_(s, p) == SubSeq(s, Min(p, Len(s)) + 1, Len(s))

\* the alternating sequences of each length up to MaxLen, one per phase
Alternating(n, first) == [i \in 1..n |-> (first + i + 1) % 2]

InitSequences == {Alternating(n, f) : n \in 0..MaxLen, f \in {0, 1}}

SeqOf(c) == lists[chromosomes[c].sequence]

-----------------------------------------------------------------------------
(* crossover(chromosome1, chromosome2, position).  The result is a pair of *)
(* descriptions: either a Chromosome to construct (isNew, with the list    *)
(* it is built from) or the address of an existing Chromosome object.      *)

Constructed(sequence, base) ==
    [isNew |-> TRUE, ref |-> 0, sequence |-> sequence, base |-> base]

Existing(c) ==
    [isNew |-> FALSE, ref |-> c, sequence |-> SeqOf(c),
     base |-> chromosomes[c].base]

crossoverBoth(seq1, seq2, base1, base2, position) ==
    <<Constructed(Head_(seq1, position) \o Tail_(seq2, position), base1),
      Constructed(Head_(seq2, position) \o Tail_(seq1, position), base2)>>

\* a slip: the second product built without chromosome2's own sequence
crossoverFirstDropsSeq2(seq1, seq2, base1, base2, position) ==
    <<Constructed(Head_(seq1, position), base1),
      Constructed(Tail_(seq1, position), base2)>>

crossoverFirst(seq1, seq2, base1, base2, position) ==
    <<Constructed(Head_(seq1, position), base1),
      Constructed(seq2 \o Tail_(seq1, position), base2)>>

\* a slip: the second product keeps chromosome2's tail
crossoverSecondKeepsTail(seq1, seq2, base1, base2, position) ==
    <<Constructed(seq1 \o Tail_(seq2, position), base1),
      Constructed(seq2, base2)>>

crossoverSecond(seq1, seq2, base1, base2, position) ==
    <<Constructed(seq1 \o Tail_(seq2, position), base1),
      Constructed(Head_(seq2, position), base2)>>

crossover(chromosome1, chromosome2, position) ==
    LET seq1 == SeqOf(chromosome1)
        seq2 == SeqOf(chromosome2)
        base1 == chromosomes[chromosome1].base
        base2 == chromosomes[chromosome2].base
    IN  IF Len(seq1) > position /\ Len(seq2) > position
        THEN crossoverBoth(seq1, seq2, base1, base2, position)
        ELSE IF Len(seq1) > position
        THEN crossoverFirst(seq1, seq2, base1, base2, position)
        ELSE IF Len(seq2) > position
        THEN crossoverSecond(seq1, seq2, base1, base2, position)
        ELSE <<Existing(chromosome1), Existing(chromosome2)>>

-----------------------------------------------------------------------------
(* Chromosome.rmutate and Chromosome.kmutate.  An outcome is the list as   *)
(* the call leaves it, and whether the call raised part-way.               *)

Outcome(raised, sequence) == [raised |-> raised, sequence |-> sequence]

\* int(): truncation toward zero of numerator / RateUnit
int(numerator) ==
    IF numerator >= 0 THEN numerator \div RateUnit
    ELSE -((-numerator) \div RateUnit)

\* a slip: the base is stored at the front, whatever the position
setitemAtFront(sequence, position, new_base) ==
    IF position >= 0 /\ position < Len(sequence)
    THEN [raised |-> FALSE, sequence |-> [sequence EXCEPT ![1] = new_base]]
    ELSE [raised |-> TRUE, sequence |-> sequence]

\* self.sequence[position] = new_base
setitem(sequence, position, new_base) ==
    IF position >= 0 /\ position < Len(sequence)
    THEN Outcome(FALSE, [sequence EXCEPT ![position + 1] = new_base])
    ELSE Outcome(TRUE, sequence)

\* self.sequence.pop(position)
pop(sequence, position) ==
    IF position >= 0 /\ position < Len(sequence)
    THEN Outcome(FALSE, Head_(sequence, position) \o Tail_(sequence, position + 1))
    ELSE Outcome(TRUE, sequence)

\* a slip: the arguments of list.insert are swapped
insertSwapped(sequence, position, new_base) ==
    Head_(sequence, new_base) \o <<position>> \o Tail_(sequence, new_base)

\* self.sequence.insert(position, new_base): an index past the end appends
insert(sequence, position, new_base) ==
    Head_(sequence, position) \o <<new_base>> \o Tail_(sequence, position)

\* self.sequence[from:to]
slice(sequence, from, to) ==
    IF to <= from THEN <<>> ELSE Tail_(Head_(sequence, to), from)

\* [self.sequence.pop(position) for i in range(count)]
RECURSIVE popFragment(_, _, _)
popFragment(sequence, position, count) ==
    IF count <= 0 THEN [raised |-> FALSE, sequence |-> sequence, fragment |-> <<>>]
    ELSE IF ~(position >= 0 /\ position < Len(sequence))
    THEN [raised |-> TRUE, sequence |-> sequence, fragment |-> <<>>]
    ELSE LET rest == popFragment(pop(sequence, position).sequence, position,
                                 count - 1)
         IN  [rest EXCEPT !.fragment = <<sequence[position + 1]>> \o @]

\* for i in range(len(fragment)): self.sequence.insert(point + i, fragment[i])
RECURSIVE insertFragment(_, _, _)
insertFragment(sequence, point, fragment) ==
    IF fragment = <<>> THEN sequence
    ELSE insertFragment(insert(sequence, point, Head(fragment)), point + 1,
                        Tail(fragment))

\* for base in fragment: self.sequence.insert(position, base)
RECURSIVE insertEachAt(_, _, _)
insertEachAt(sequence, position, fragment) ==
    IF fragment = <<>> THEN sequence
    ELSE insertEachAt(insert(sequence, position, Head(fragment)), position,
                      Tail(fragment))

\* fragment.reverse()
reverse(fragment) ==
    [i \in 1..Len(fragment) |-> fragment[Len(fragment) + 1 - i]]

\* the 'duplicate' branch, for the drawn end_pos
duplicate(sequence, position, end_pos) ==
    {Outcome(FALSE, insertFragment(sequence, end_pos,
                                   slice(sequence, position, end_pos)))}

\* the 'invert' branch, for the drawn end_pos
invert(sequence, position, end_pos) ==
    LET popped == popFragment(sequence, position, end_pos - position)
    IN  IF popped.raised THEN {Outcome(TRUE, popped.sequence)}
        ELSE {Outcome(FALSE, insertEachAt(popped.sequence, position,
                                          reverse(popped.fragment)))}

\* the 'translocate' branch, for the drawn end_pos and every insertion_point
translocate(sequence, position, end_pos) ==
    LET popped == popFragment(sequence, position, end_pos - position)
    IN  IF popped.raised THEN {Outcome(TRUE, popped.sequence)}
        ELSE {Outcome(FALSE, insertFragment(popped.sequence, insertion_point,
                                            popped.fragment))
              : insertion_point \in 0..Len(popped.sequence)}

\* the branches that draw end_pos = random.randrange(position + 1, end),
\* which raises on an empty range
withEndPos(sequence, type, position, end) ==
    IF position + 1 >= end THEN {Outcome(TRUE, sequence)}
    ELSE UNION { IF type = "duplicate" THEN duplicate(sequence, position, end_pos)
                 ELSE IF type = "invert" THEN invert(sequence, position, end_pos)
                 ELSE translocate(sequence, position, end_pos)
                 : end_pos \in (position + 1)..(end - 1) }

\* one pass of the body of rmutate's while loop, at the drawn position
rmutateEdit(sequence, type, position, new_base, end) ==
    IF type = "point" THEN {setitem(sequence, position, new_base)}
    ELSE IF type = "delete" THEN {pop(sequence, position)}
    ELSE IF type = "insert"
    THEN {Outcome(FALSE, insert(sequence, position, new_base))}
    ELSE IF type \in {"duplicate", "invert", "translocate"}
    THEN withEndPos(sequence, type, position, end)
    ELSE {Outcome(FALSE, sequence)}

\* where a call of rmutate stands: the list, whether it has raised, and the
\* passes of the loop body it has completed
Progress(raised, sequence, edits) ==
    [raised |-> raised, sequence |-> sequence, edits |-> edits]

\* one pass of the while loop from p: the draws of position and new_base
\* (random.randrange(n) raises for n <= 0), then the edit
rmutatePass(p, base, type, start, end, length) ==
    IF p.raised THEN {p}
    ELSE IF length - 1 <= 0 \/ Len(base) = 0
    THEN {Progress(TRUE, p.sequence, p.edits)}
    ELSE UNION {
            { IF o.raised THEN Progress(TRUE, o.sequence, p.edits)
              ELSE Progress(FALSE, o.sequence, p.edits + 1)
              : o \in rmutateEdit(p.sequence, type, start + r, new_base, end) }
            : r \in 0..(length - 2), new_base \in Range(base) }

\* while mutation > 0: ... mutation = mutation - 1, over every place the
\* call can stand in
RECURSIVE rmutateLoop(_, _, _, _, _, _, _)
rmutateLoop(standing, base, type, start, end, length, mutation) ==
    IF mutation <= 0 THEN standing
    ELSE rmutateLoop(UNION { rmutatePass(p, base, type, start, end, length)
                             : p \in standing },
                     base, type, start, end, length, mutation - 1)

\* the region and the number of edits rmutate settles on before its loop
rmutateRegion(sequence, background_mutation, rate, start, end) ==
    LET end1 == IF end > Len(sequence) - 1 THEN Len(sequence) - 1 ELSE end
        end2 == IF end1 = -1 THEN Len(sequence) - 1 ELSE end1
        start1 == IF start = end2 THEN 0 ELSE start
        length == end2 - start1
    IN  [start |-> start1, end |-> end2, length |-> length,
         mutation |-> int((background_mutation + rate) * length)]

rmutate(sequence, base, background_mutation, type, rate, start, end) ==
    LET region == rmutateRegion(sequence, background_mutation, rate, start, end)
    IN  rmutateLoop({Progress(FALSE, sequence, 0)}, base, type, region.start,
                    region.end, region.length, region.mutation)

\* kmutate(type, start, end, sequence, tpos): `symbol` is the argument the
\* code calls sequence, a base for 'point' and a list of bases for 'insert'
kmutate(sequence, type, start, end, symbol, tpos) ==
    IF type = "point" THEN setitem(sequence, start, symbol)
    ELSE IF type = "delete" THEN pop(sequence, start)
    ELSE IF type = "insert"
    THEN Outcome(FALSE, insertEachAt(sequence, start, symbol))
    ELSE IF type = "duplicate"
    THEN Outcome(FALSE, insertFragment(sequence, end,
                                       slice(sequence, start, end + 1)))
    ELSE IF type = "invert"
    THEN Outcome(FALSE, insertEachAt(sequence, start,
                                     slice(sequence, start, end)))
    ELSE IF type = "translocate"
    THEN LET popped == popFragment(sequence, start, end - start)
         IN  IF popped.raised THEN Outcome(TRUE, popped.sequence)
             ELSE Outcome(FALSE, insertFragment(popped.sequence, tpos,
                                                popped.fragment))
    ELSE Outcome(FALSE, sequence)

-----------------------------------------------------------------------------
(* Construction.                                                           *)

\* Chromosome(sequence, base, background_mutation) on a fresh list object
Chromosome(sequence_addr, base, background_mutation) ==
    [sequence |-> sequence_addr, base |-> base,
     background_mutation |-> background_mutation]

\* Organism(genome): the instance holds its genome; status is the class's
Organism(genome) == [genome |-> genome]

\* the dict the class body binds to Organism.status
ClassStatus ==
    [alive |-> TRUE, vitality |-> 10000, age |-> 0, lifespan |-> 10000,
     fitness |-> 10000, death |-> "None"]

\* self.status as an organism sees it: no method binds an instance attribute
\* named status, so the lookup always reaches the class's dict
StatusOf(o) == status

\* the sequences of an organism's chromosomes, in genome order
GenomeSeqs(o) ==
    [i \in 1..Len(organisms[o].genome) |-> SeqOf(organisms[o].genome[i])]

NoCrossover == [valid |-> FALSE]

NoOperation == [op |-> "none", target |-> 0, raised |-> FALSE, count |-> 0,
                xover |-> NoCrossover]

\* Population(goal, maxgenerations, agents)
PopulationInit(goal_, agents_) ==
    /\ agents = agents_
    /\ goal = goal_
    /\ generation = 0
    /\ pc = "idle"
    /\ x = 0
    /\ temp = <<>>
    /\ trace = <<>>
    /\ entry = 0
    /\ completed = 0
    /\ outcome = [kind |-> "none"]

\* heap after storing the Chromosome a crossover result describes:
\* a constructed one takes a new list and a new Chromosome (with the
\* constructor's default background_mutation), an existing one nothing
Store(lists_, chromosomes_, result) ==
    IF result.isNew
    THEN [lists |-> Append(lists_, result.sequence),
          chromosomes |-> Append(chromosomes_,
                                 Chromosome(Len(lists_) + 1, result.base,
                                            DefaultBackground)),
          ref |-> Len(chromosomes_) + 1]
    ELSE [lists |-> lists_, chromosomes |-> chromosomes_, ref |-> result.ref]

-----------------------------------------------------------------------------
(* SpecChrom: two chromosomes, then crossover, rmutate and kmutate calls.  *)

ChromInit ==
    /\ \E s1, s2 \in InitSequences :
          /\ lists = <<s1, s2>>
          /\ chromosomes = <<Chromosome(1, DefaultBase, DefaultBackground),
                             Chromosome(2, DefaultBase, DefaultBackground)>>
    /\ organisms = <<>>
    /\ status = ClassStatus
    /\ PopulationInit(1, <<>>)
    /\ last = NoOperation

CrossoverCall ==
    \E c1, c2 \in 1..Len(chromosomes), position \in 0..(MaxLen + 1) :
        /\ last.count < MaxOps
        /\ Len(chromosomes) + 2 <= MaxChromosomes
        /\ LET r == crossover(c1, c2, position)
               a1 == Store(lists, chromosomes, r[1])
               a2 == Store(a1.lists, a1.chromosomes, r[2])
           IN  /\ lists' = a2.lists
               /\ chromosomes' = a2.chromosomes
               /\ last' = [op |-> "crossover", target |-> 0, raised |-> FALSE,
                           count |-> last.count + 1,
                           xover |-> [valid |-> TRUE, in1 |-> c1, in2 |-> c2,
                                      position |-> position,
                                      seq1 |-> SeqOf(c1), seq2 |-> SeqOf(c2),
                                      out1 |-> a1.ref, out2 |-> a2.ref]]
        /\ UNCHANGED <<organisms, status, population>>

RmutateCall ==
    \E c \in 1..Len(chromosomes), rate \in Rates :
        /\ last.count < MaxOps
        /\ \E o \in rmutate(SeqOf(c), chromosomes[c].base,
                            chromosomes[c].background_mutation,
                            "point", rate, 0, -1) :
              /\ lists' = [lists EXCEPT ![chromosomes[c].sequence] = o.sequence]
              /\ last' = [last EXCEPT !.op = "rmutate", !.target = c,
                                      !.raised = o.raised, !.count = @ + 1]
        /\ UNCHANGED <<chromosomes, organisms, status, population>>

KmutateCall ==
    \E c \in 1..Len(chromosomes) :
      \E start \in 0..(Len(SeqOf(c)) - 1), symbol \in Range(chromosomes[c].base) :
        /\ last.count < MaxOps
        /\ LET o == kmutate(SeqOf(c), "point", start, 0, symbol, 0)
           IN  /\ lists' = [lists EXCEPT ![chromosomes[c].sequence] = o.sequence]
               /\ last' = [last EXCEPT !.op = "kmutate", !.target = c,
                                       !.raised = o.raised, !.count = @ + 1]
        /\ UNCHANGED <<chromosomes, organisms, status, population>>

ChromNext == CrossoverCall \/ RmutateCall \/ KmutateCall

SpecChrom == ChromInit /\ [][ChromNext]_vars

WithinBoth(xo) ==
    xo.position <= Min(Len(xo.seq1), Len(xo.seq2))

\* C8: for a cut position p with 0 <= p <= min(len(s1), len(s2)), crossover
\* returns chromosomes whose sequences are s1[:p] + s2[p:] and
\* s2[:p] + s1[p:], in that order.
C8_CrossoverPartition ==
    (last.op = "crossover" /\ WithinBoth(last.xover)) =>
        LET xo == last.xover
            p == xo.position
        IN  /\ SeqOf(xo.out1) =
                   SubSeq(xo.seq1, 1, p) \o SubSeq(xo.seq2, p + 1, Len(xo.seq2))
            /\ SeqOf(xo.out2) =
                   SubSeq(xo.seq2, 1, p) \o SubSeq(xo.seq1, p + 1, Len(xo.seq1))

\* a crossover strictly inside both sequences that produced a new sequence
C8_Witness ==
    /\ last.op = "crossover"
    /\ last.xover.position >= 1
    /\ last.xover.position < Min(Len(last.xover.seq1), Len(last.xover.seq2))
    /\ SeqOf(last.xover.out1) \notin {last.xover.seq1, last.xover.seq2}

\* C9: the chromosomes crossover returns share no sequence with its inputs,
\* at every cut position: mutating an output leaves the inputs' sequences
\* as they were, and mutating an input leaves the outputs' as they were.
C9_CrossoverOutputsFresh ==
    [][(last.xover.valid /\ last'.op \in {"rmutate", "kmutate"}) =>
          LET xo == last.xover
              ins == {xo.in1, xo.in2}
              outs == {xo.out1, xo.out2}
          IN  /\ last'.target \in outs =>
                     \A c \in ins : SeqOf(c)' = SeqOf(c)
              /\ last'.target \in ins =>
                     \A c \in outs : SeqOf(c)' = SeqOf(c)]_vars

\* C10: for a cut position p within both sequences, crossover at p of the
\* two chromosomes crossover(c1, c2, p) returned gives back the sequences
\* s1 and s2.
C10_CrossoverInvolution ==
    (last.op = "crossover" /\ WithinBoth(last.xover)) =>
        LET xo == last.xover
            again == crossover(xo.out1, xo.out2, xo.position)
        IN  /\ again[1].sequence = xo.seq1
            /\ again[2].sequence = xo.seq2

\* a crossover at the end of the shorter first sequence that lengthened it
C10_Witness ==
    /\ last.op = "crossover"
    /\ last.xover.position >= 1
    /\ last.xover.position = Len(last.xover.seq1)
    /\ Len(SeqOf(last.xover.out1)) > Len(last.xover.seq1)
    /\ crossover(last.xover.out1, last.xover.out2,
                 last.xover.position)[1].sequence = last.xover.seq1

-----------------------------------------------------------------------------
(* Organism.setStatus.                                                     *)

setAlive(st, value) ==
    LET s1 == IF value = TRUE THEN [st EXCEPT !.alive = value] ELSE st
    IN  IF value = FALSE
        THEN [s1 EXCEPT !.alive = value, !.death = "death03"]
        ELSE s1

\* a slip: a positive vitality brings the organism back to life
setVitalityRevives(st, value) ==
    LET s1 == IF value > VitalityCeiling
              THEN [st EXCEPT !.vitality = FullVitality] ELSE st
        s2 == IF value > 0 /\ value < VitalityCeiling
              THEN [s1 EXCEPT !.vitality = value, !.alive = TRUE] ELSE s1
    IN  IF value = 0 \/ value < 0
        THEN [s2 EXCEPT !.vitality = 0, !.alive = FALSE, !.death = "death01"]
        ELSE s2

setVitality(st, value) ==
    LET s1 == IF value > VitalityCeiling
              THEN [st EXCEPT !.vitality = FullVitality] ELSE st
        s2 == IF value > 0 /\ value < VitalityCeiling
              THEN [s1 EXCEPT !.vitality = value] ELSE s1
    IN  IF value = 0 \/ value < 0
        THEN [s2 EXCEPT !.vitality = 0, !.alive = FALSE, !.death = "death01"]
        ELSE s2

\* a slip: an age equal to the lifespan does not kill
setAgeOffByOne(st, value) ==
    IF value <= st.lifespan
    THEN [st EXCEPT !.age = value]
    ELSE [st EXCEPT !.age = st.lifespan, !.alive = FALSE, !.death = "death02"]

setAge(st, value) ==
    IF value < st.lifespan
    THEN [st EXCEPT !.age = value]
    ELSE [st EXCEPT !.age = st.lifespan, !.alive = FALSE, !.death = "death02"]

setStatus(st, variable, value) ==
    LET s1 == IF variable = "alive" THEN setAlive(st, value) ELSE st
    IN  IF variable = "vitality" THEN setVitality(s1, value)
        ELSE IF variable = "age" THEN setAge(s1, value)
        ELSE [s1 EXCEPT ![variable] = value]

-----------------------------------------------------------------------------
(* Organism.clone: deepcopy of the instance, which copies the genome, its  *)
(* Chromosome objects and their lists, each distinct object once.          *)

Rank(a, S) == Cardinality({b \in S : b <= a})

Nth(k, S) == CHOOSE a \in S : Rank(a, S) = k

clone(o) ==
    LET genome == organisms[o].genome
        cs == Range(genome)
        ls == {chromosomes[c].sequence : c \in cs}
        newList(l) == Len(lists) + Rank(l, ls)
        newChromosome(c) == Len(chromosomes) + Rank(c, cs)
    IN  [lists |-> lists \o [k \in 1..Cardinality(ls) |-> lists[Nth(k, ls)]],
         chromosomes |->
             chromosomes \o
             [k \in 1..Cardinality(cs) |->
                 [chromosomes[Nth(k, cs)] EXCEPT
                     !.sequence = newList(chromosomes[Nth(k, cs)].sequence)]],
         organisms |->
             Append(organisms,
                    Organism([i \in 1..Len(genome) |-> newChromosome(genome[i])])),
         ref |-> Len(organisms) + 1]

-----------------------------------------------------------------------------
(* SpecOrganism: separately constructed organisms, then setStatus, clone   *)
(* and kmutate calls on them and on their clones.                          *)

VitalityValues == {-5000, 0, 5000, 10000, 10005, 10010, 15000}
AgeValues == {5000, 10000, 15000}
LifespanValues == {5000, 10000}
DeathValues == {"None"}

StatusInputs ==
    ({"alive"} \X BOOLEAN) \cup ({"vitality"} \X VitalityValues)
    \cup ({"age"} \X AgeValues) \cup ({"lifespan"} \X LifespanValues)
    \cup ({"death"} \X DeathValues)

NoOrganismOperation ==
    [op |-> "none", target |-> 0, variable |-> "", value |-> 0, clones |-> {}]

\* Organism('dummy') up to MaxOrganisms times: each has its own Chromosome([0])
OrganismInit ==
    /\ \E n \in 1..MaxOrganisms :
          /\ lists = [i \in 1..n |-> <<0>>]
          /\ chromosomes = [i \in 1..n |->
                               Chromosome(i, DefaultBase, DefaultBackground)]
          /\ organisms = [i \in 1..n |-> Organism(<<i>>)]
    /\ status = ClassStatus
    /\ PopulationInit(1, <<>>)
    /\ last = NoOrganismOperation

SetStatusCall ==
    \E o \in 1..Len(organisms), in \in StatusInputs :
        /\ status' = setStatus(status, in[1], in[2])
        /\ last' = [last EXCEPT !.op = "setStatus", !.target = o,
                                !.variable = in[1], !.value = in[2]]
        /\ UNCHANGED <<heap, population>>

CloneCall ==
    \E o \in 1..Len(organisms) :
        /\ Len(organisms) < MaxOrganisms
        /\ LET r == clone(o)
           IN  /\ lists' = r.lists
               /\ chromosomes' = r.chromosomes
               /\ organisms' = r.organisms
               /\ last' = [op |-> "clone", target |-> o, variable |-> "",
                           value |-> 0,
                           clones |-> last.clones \cup {{o, r.ref}}]
        /\ UNCHANGED <<status, population>>

KmutateOrganism ==
    \E o \in 1..Len(organisms) :
      \E i \in 1..Len(organisms[o].genome) :
        LET c == organisms[o].genome[i]
        IN  \E start \in 0..(Len(SeqOf(c)) - 1),
               symbol \in Range(chromosomes[c].base) :
              /\ lists' = [lists EXCEPT ![chromosomes[c].sequence] =
                              kmutate(SeqOf(c), "point", start, 0, symbol, 0).sequence]
              /\ last' = [last EXCEPT !.op = "kmutate", !.target = o,
                                      !.variable = "", !.value = 0]
              /\ UNCHANGED <<chromosomes, organisms, status, population>>

OrganismNext == SetStatusCall \/ CloneCall \/ KmutateOrganism

SpecOrganism == OrganismInit /\ [][OrganismNext]_vars

C5_DeathTransitions ==
    last.op = "setStatus" =>
        /\ (last.variable = "vitality" /\ last.value <= 0) =>
               /\ status.alive = FALSE
               /\ status.vitality = 0
               /\ status.death = "death01"
        /\ (last.variable = "age" /\ last.value >= status.lifespan) =>
               /\ status.alive = FALSE
               /\ status.age = status.lifespan
               /\ status.death = "death02"

\* setStatus('age', lifespan) has acted on an organism of zero vitality
C5_Witness ==
    /\ last.op = "setStatus"
    /\ last.variable = "age"
    /\ last.value = status.lifespan
    /\ status.vitality = 0
    /\ status.death = "death02"

\* C6: the stored vitality always lies in [0, 100].
C6_VitalityInRange ==
    status.vitality >= 0 /\ status.vitality <= FullVitality

\* C7: after clone(), a kmutate or setStatus on either organism leaves the
\* other organism's chromosome sequences and status record unchanged.
C7_CloneSharesNothing ==
    [][\A pair \in last.clones : \A a \in pair : \A b \in pair \ {a} :
          (last'.op \in {"setStatus", "kmutate"} /\ last'.target = a) =>
              /\ GenomeSeqs(b)' = GenomeSeqs(b)
              /\ StatusOf(b)' = StatusOf(b)]_vars

-----------------------------------------------------------------------------
(* Fractions, for fitness values: <<numerator, denominator>> in lowest     *)
(* terms with a positive denominator.                                      *)

RECURSIVE Sum(_)
Sum(s) == IF s = <<>> THEN 0 ELSE Head(s) + Sum(Tail(s))

Abs(a) == IF a < 0 THEN -a ELSE a

RECURSIVE gcd(_, _)
gcd(a, b) == IF b = 0 THEN a ELSE gcd(b, a % b)

Fraction(n, d) ==
    LET g == gcd(Abs(n), Abs(d))
        sign == IF d < 0 THEN -1 ELSE 1
    IN  <<(sign * n) \div g, (sign * d) \div g>>

FAdd(a, b) == Fraction(a[1] * b[2] + b[1] * a[2], a[2] * b[2])
FSub(a, b) == Fraction(a[1] * b[2] - b[1] * a[2], a[2] * b[2])
FMul(a, b) == Fraction(a[1] * b[1], a[2] * b[2])
FDiv(a, b) == Fraction(a[1] * b[2], a[2] * b[1])
FGreater(a, b) == a[1] * b[2] > b[1] * a[2]

RECURSIVE FSum(_)
\* sum() of fractions, by halves
FSum(s) ==
    IF s = <<>> THEN <<0, 1>>
    ELSE IF Len(s) = 1 THEN FAdd(s[1], <<0, 1>>)
    ELSE LET half == Len(s) \div 2
         IN  FAdd(FSum(SubSeq(s, 1, half)), FSum(SubSeq(s, half + 1, Len(s))))

-----------------------------------------------------------------------------
(* Organism.fitness and Organism.mutation_scheme.                          *)

\* the sample fitness: the share of 1s in the genome; a genome of total
\* length 0 raises ZeroDivisionError
fitness(o) ==
    LET genome == organisms[o].genome
        one_count == Sum([i \in 1..Len(genome) |-> Sum(SeqOf(genome[i]))])
        length_of_genome == Sum([i \in 1..Len(genome) |-> Len(SeqOf(genome[i]))])
    IN  IF length_of_genome = 0
        THEN [raised |-> TRUE, value |-> <<0, 1>>]
        ELSE [raised |-> FALSE, value |-> Fraction(one_count, length_of_genome)]

\* for chromosome in self.genome: chromosome.rmutate(type, rate), from the
\* i-th chromosome on; the outcomes are the heaps of lists it can leave
RECURSIVE mutation_schemeFrom(_, _, _)
mutation_schemeFrom(genome, i, lists_) ==
    IF i > Len(genome) THEN {[raised |-> FALSE, lists |-> lists_]}
    ELSE LET c == chromosomes[genome[i]]
             put(o) == [lists_ EXCEPT ![c.sequence] = o.sequence]
         IN  UNION { IF o.raised THEN {[raised |-> TRUE, lists |-> put(o)]}
                     ELSE mutation_schemeFrom(genome, i + 1, put(o))
                     : o \in rmutate(lists_[c.sequence], c.base,
                                     c.background_mutation, "point",
                                     MutationSchemeRate, 0, -1) }

mutation_scheme(o) == mutation_schemeFrom(organisms[o].genome, 1, lists)

-----------------------------------------------------------------------------
(* Population: prepopulation_control, report and the steps of              *)
(* generation_step.                                                        *)

\* [self.agents[x].fitness() for x in range(size)]
sfitness == [i \in 1..Len(agents) |-> fitness(agents[i])]

FitnessRaises == \E i \in 1..Len(agents) : sfitness[i].raised

RECURSIVE Select(_, _)
\* the members of s, in order, whose flag is set
Select(s, keep) ==
    IF s = <<>> THEN <<>>
    ELSE IF Len(s) = 1 THEN (IF keep[1] THEN s ELSE <<>>)
    ELSE LET half == Len(s) \div 2
         IN  Select(SubSeq(s, 1, half), SubSeq(keep, 1, half))
             \o Select(SubSeq(s, half + 1, Len(s)),
                       SubSeq(keep, half + 1, Len(s)))

\* the collections prepopulation_control can leave (it has not raised)
prepopulation_control ==
    LET size == Len(agents)
        threshold == FDiv(FSum([i \in 1..size |-> sfitness[i].value]), <<size, 1>>)
        above == [i \in 1..size |-> FGreater(sfitness[i].value, threshold)]
        temp_ == Select(agents, above)
        sampled == IF Len(temp_) > CapTrigger
                   THEN {[k \in 1..CapSize |-> temp_[f[k]]] :
                            f \in [1..CapSize -> 1..Len(temp_)]}
                   ELSE {agents}
    IN  \* the second if overwrites whatever the first one assigned
        IF Len(temp_) > AdoptAbove THEN {temp_} ELSE sampled

\* a slip: a goal of 0 is divided by as any other
reportRaisesButOnGoal == Len(agents) = 0 \/ FitnessRaises

\* ZeroDivisionError in report: no agents, a fitness() that raises, goal 0
reportRaises == Len(agents) = 0 \/ FitnessRaises \/ goal = 0

report ==
    LET afitness == FDiv(FSum([i \in 1..Len(agents) |-> sfitness[i].value]),
                         <<Len(agents), 1>>)
    IN  [kind |-> "report",
         generation |-> generation,
         average_fitness |-> afitness,
         percent_to_goal |->
             FMul(FDiv(FSub(afitness, <<goal, 1>>), <<goal, 1>>), <<100, 1>>)]

\* a slip: prepopulation_control is never run
FirstPhaseAlwaysMating(generation_) == "mating"

\* if self.generation > 0: self.prepopulation_control()
FirstPhase(generation_) ==
    IF generation_ > 0 THEN "prepopulation_control" ELSE "mating"

Enter(phase) == pc' = phase /\ trace' = Append(trace, phase)

Raise == pc' = "idle" /\ outcome' = [kind |-> "raised"] /\ UNCHANGED trace

\* the sequences the initial organisms carry: one per length from 2 on
PopSequences == {Alternating(n, 1) : n \in 2..MaxLen}

Goals == {0, 1}

Init ==
    /\ \E n \in 0..MaxPop :
         \E ss \in [1..n -> PopSequences],
            bs \in [1..n -> {DefaultBackground, HighBackground}], g \in Goals :
            /\ lists = [i \in 1..n |-> ss[i]]
            /\ chromosomes = [i \in 1..n |-> Chromosome(i, DefaultBase, bs[i])]
            /\ organisms = [i \in 1..n |-> Organism(<<i>>)]
            /\ PopulationInit(g, [i \in 1..n |-> i])
    /\ status = ClassStatus
    /\ last = NoOperation

generation_step ==
    /\ pc = "idle"
    /\ Len(agents) <= MaxPop
    /\ generation < MaxGenerations
    /\ entry' = generation
    /\ pc' = FirstPhase(generation)
    /\ trace' = <<FirstPhase(generation)>>
    /\ x' = 0
    /\ temp' = <<>>
    /\ outcome' = [kind |-> "none"]
    /\ UNCHANGED <<heap, status, agents, goal, generation, completed, last>>

PrepopulationControl ==
    /\ pc = "prepopulation_control"
    /\ \/ /\ Len(agents) = 0 \/ FitnessRaises
          /\ Raise
          /\ UNCHANGED agents
       \/ /\ Len(agents) > 0 /\ ~FitnessRaises
          /\ agents' \in prepopulation_control
          /\ Enter("mating")
          /\ UNCHANGED outcome
    /\ UNCHANGED <<heap, status, goal, generation, x, temp, entry, completed, last>>

\* one round of mating's loop: the offspring carries g1; g2 is dropped
MatingRound ==
    /\ pc = "mating"
    /\ x < Len(agents)
    /\ \E i1, i2 \in 1..Len(agents) :
         LET organism1 == organisms[agents[i1]]
             organism2 == organisms[agents[i2]]
         IN  \E crossover_pt \in 0..Len(SeqOf(organism1.genome[1])) :
               LET r == crossover(organism1.genome[1], organism2.genome[1],
                                  crossover_pt)
                   g1 == Store(lists, chromosomes, r[1])
               IN  /\ lists' = g1.lists
                   /\ chromosomes' = g1.chromosomes
                   /\ organisms' = Append(organisms, Organism(<<g1.ref>>))
                   /\ temp' = Append(temp, Len(organisms) + 1)
    /\ x' = x + 1
    /\ UNCHANGED <<status, agents, goal, generation, pc, trace, entry,
                   completed, outcome, last>>

\* a slip: the offspring replace the collection
add_organismReplaces(agents_, organism) == organism

\* self.agents = self.agents + organism
add_organism(agents_, organism) == agents_ \o organism

\* self.add_organism(temp), then postpopulation_control is next
MatingDone ==
    /\ pc = "mating"
    /\ x = Len(agents)
    /\ agents' = add_organism(agents, temp)
    /\ Enter("postpopulation_control")
    /\ UNCHANGED <<heap, status, goal, generation, x, temp, entry, completed,
                   outcome, last>>

PostpopulationControl ==
    /\ pc = "postpopulation_control"
    /\ Enter("mutation")
    /\ x' = 0
    /\ UNCHANGED <<heap, status, agents, goal, generation, temp, entry,
                   completed, outcome, last>>

\* one pass of: for organism in self.agents: organism.mutation_scheme()
MutateOrganism ==
    /\ pc = "mutation"
    /\ x < Len(agents)
    /\ \E r \in mutation_scheme(agents[x + 1]) :
         /\ lists' = r.lists
         /\ \/ /\ r.raised
               /\ Raise
               /\ UNCHANGED x
            \/ /\ ~r.raised
               /\ x' = x + 1
               /\ UNCHANGED <<pc, trace, outcome>>
    /\ UNCHANGED <<chromosomes, organisms, status, agents, goal, generation,
                   temp, entry, completed, last>>

MutationDone ==
    /\ pc = "mutation"
    /\ x = Len(agents)
    /\ Enter("generation_events")
    /\ UNCHANGED <<heap, status, agents, goal, generation, x, temp, entry,
                   completed, outcome, last>>

GenerationEvents ==
    /\ pc = "generation_events"
    /\ Enter("increment")
    /\ UNCHANGED <<heap, status, agents, goal, generation, x, temp, entry,
                   completed, outcome, last>>

\* self.generation = self.generation + 1
Increment ==
    /\ pc = "increment"
    /\ generation' = generation + 1
    /\ Enter("report")
    /\ UNCHANGED <<heap, status, agents, goal, x, temp, entry, completed,
                   outcome, last>>

\* return self.report()
Report ==
    /\ pc = "report"
    /\ \/ /\ reportRaises
          /\ Raise
          /\ UNCHANGED completed
       \/ /\ ~reportRaises
          /\ pc' = "idle"
          /\ outcome' = report
          /\ completed' = completed + 1
          /\ UNCHANGED trace
    /\ UNCHANGED <<heap, status, agents, goal, generation, x, temp, entry, last>>

Next ==
    \/ generation_step
    \/ PrepopulationControl
    \/ MatingRound
    \/ MatingDone
    \/ PostpopulationControl
    \/ MutateOrganism
    \/ MutationDone
    \/ GenerationEvents
    \/ Increment
    \/ Report

Spec == Init /\ [][Next]_vars

IsPrefix(s, t) == Len(s) <= Len(t) /\ s = SubSeq(t, 1, Len(s))

ExpectedPhases(generation_) ==
    (IF generation_ > 0 THEN <<"prepopulation_control">> ELSE <<>>)
    \o <<"mating", "postpopulation_control", "mutation", "generation_events",
         "increment", "report">>

AfterMutation == {"generation_events", "increment", "report"}

\* C1: a generation_step call runs prepopulation_control (only when
\* generation > 0 at entry), mating, postpopulation_control, mutation_scheme
\* on every organism of the collection (the offspring of mating included),
\* generation_events, the increment of generation, then report: each once,
\* in this order, one after the other.
C1_PhaseOrder ==
    /\ IsPrefix(trace, ExpectedPhases(entry))
    /\ pc # "idle" => pc = trace[Len(trace)]
    /\ (pc = "idle" /\ outcome.kind = "report") => trace = ExpectedPhases(entry)
    /\ pc \in AfterMutation =>
          /\ x = Len(agents)
          /\ Range(temp) \subseteq Range(agents)
    /\ pc \in {"generation_events", "increment"} => generation = entry
    /\ pc = "report" => generation = entry + 1

\* a call that began at generation > 0 with a non-empty collection has
\* returned its report
C1_Witness ==
    /\ pc = "idle"
    /\ outcome.kind = "report"
    /\ entry > 0
    /\ Len(temp) > 0
    /\ trace = ExpectedPhases(entry)

\* C2: whenever no call is running, generation is the number of
\* generation_step calls that have returned a report, and the last report
\* returned carries that number.
C2_GenerationCountsCompleted ==
    pc = "idle" =>
        /\ generation = completed
        /\ outcome.kind = "report" => outcome.generation = completed

\* C3: in the mutation phase, mutation_scheme on one organism leaves the
\* chromosome sequences of every other organism of the collection unchanged.
C3_MutationIsolated ==
    [][(pc = "mutation" /\ x < Len(agents)) =>
          \A o \in Range(agents) \ {agents[x + 1]} :
              GenomeSeqs(o)' = GenomeSeqs(o)]_vars

-----------------------------------------------------------------------------
(* SpecMutate: one chromosome and one call of rmutate, of any kind, rate   *)
(* and region.                                                             *)

MaxSeq == 5

Kinds == {"point", "insert", "delete", "invert", "duplicate", "translocate"}

\* rates that bring background_mutation + rate to -0.9999, 0.0001, 0.1001,
\* 0.5001 and 1.0
MutateRates == {-RateUnit, 0, MutationSchemeRate, RateUnit \div 2,
                RateUnit - DefaultBackground}

MutateSequences == {Alternating(n, 1) : n \in 0..MaxSeq}

NoMutation == [op |-> "none", type |-> "none", rate |-> 0, start |-> 0,
               end |-> 0, before |-> <<>>, raised |-> FALSE, edits |-> 0]

MutateInit ==
    /\ \E s \in MutateSequences : lists = <<s>>
    /\ chromosomes = <<Chromosome(1, DefaultBase, DefaultBackground)>>
    /\ organisms = <<>>
    /\ status = ClassStatus
    /\ PopulationInit(1, <<>>)
    /\ last = NoMutation

\* chromosome.rmutate(type, rate, start, end)
RmutateAny ==
    \E type \in Kinds, rate \in MutateRates,
       start \in 0..Len(SeqOf(1)), end \in (-1)..Len(SeqOf(1)) :
        /\ last.op = "none"
        /\ \E o \in rmutate(SeqOf(1), chromosomes[1].base,
                            chromosomes[1].background_mutation,
                            type, rate, start, end) :
              /\ lists' = [lists EXCEPT ![chromosomes[1].sequence] = o.sequence]
              /\ last' = [op |-> "rmutate", type |-> type, rate |-> rate,
                          start |-> start, end |-> end, before |-> SeqOf(1),
                          raised |-> o.raised, edits |-> o.edits]
        /\ UNCHANGED <<chromosomes, organisms, status, population>>

\* chromosome.kmutate(type, start, end, sequence, tpos), with the arguments
\* the kind requires and the defaults for the others
KmutateAny ==
    \E type \in Kinds, start \in 0..Len(SeqOf(1)) :
      \E end \in (IF type \in {"invert", "duplicate", "translocate"}
                  THEN 0..Len(SeqOf(1)) ELSE {0}),
         symbol \in (IF type \in {"point", "insert"}
                     THEN Range(chromosomes[1].base) ELSE {0}),
         tpos \in (IF type = "translocate" THEN 0..Len(SeqOf(1)) ELSE {0}) :
        /\ last.op = "none"
        /\ LET o == kmutate(SeqOf(1), type, start, end,
                            IF type = "insert" THEN <<symbol>> ELSE symbol,
                            tpos)
           IN  /\ lists' = [lists EXCEPT ![chromosomes[1].sequence] = o.sequence]
               /\ last' = [op |-> "kmutate", type |-> type, start |-> start,
                           end |-> end, symbol |-> symbol, tpos |-> tpos,
                           before |-> SeqOf(1), raised |-> o.raised]
        /\ UNCHANGED <<chromosomes, organisms, status, population>>

\* one pass of rmutate's loop of kind 'invert' over the default region, for
\* the position and end_pos it draws
InvertPass ==
    LET region == rmutateRegion(SeqOf(1), chromosomes[1].background_mutation,
                                RateUnit - DefaultBackground, 0, -1)
    IN  \E position \in region.start..(region.start + region.length - 2) :
          \E end_pos \in (position + 1)..(region.end - 1) :
            /\ last.op = "none"
            /\ \E o \in invert(SeqOf(1), position, end_pos) :
                  /\ lists' = [lists EXCEPT ![chromosomes[1].sequence] = o.sequence]
                  /\ last' = [op |-> "invert", position |-> position,
                              end_pos |-> end_pos, before |-> SeqOf(1),
                              raised |-> o.raised]
            /\ UNCHANGED <<chromosomes, organisms, status, population>>

MutateNext == RmutateAny \/ KmutateAny \/ InvertPass

SpecMutate == MutateInit /\ [][MutateNext]_vars

\* background_mutation + rate of the call last made
TotalRate == chromosomes[1].background_mutation + last.rate

\* the call's region [start, end) lies inside the sequence it was given
\* (end = -1 standing for the end of the sequence)
RegionInside ==
    /\ 0 <= last.start
    /\ \/ last.end = -1
       \/ last.start <= last.end /\ last.end <= Len(last.before)

\* C11: for every kind, every rate with 0 <= background_mutation + rate <= 1
\* and every region inside the sequence, rmutate makes all its edits and
\* returns: no draw or index is out of range part-way, whatever is drawn.
C11_RmutateCompletes ==
    (last.op = "rmutate" /\ 0 <= TotalRate /\ TotalRate <= RateUnit
        /\ RegionInside)
    => ~last.raised

\* floor(total * region_length), in edits, and zero when that is <= 0
ClaimedEdits(region_length) ==
    LET n == (TotalRate * region_length) \div RateUnit
    IN  IF n <= 0 THEN 0 ELSE n

\* the length of the half-open region [start, end) the call names, end = -1
\* standing for the end of the sequence
NamedRegionLength ==
    IF last.end = -1 THEN Len(last.before) - last.start
    ELSE last.end - last.start

\* C12: a call of rmutate over the region [start, end) (end = -1 being the
\* end of the sequence), once it returns, has made exactly
\* floor((background_mutation + rate) * region_length) edits, and none when
\* that value is <= 0.
C12_EditCount ==
    (last.op = "rmutate" /\ RegionInside /\ last.start # last.end
        /\ ~last.raised)
    => last.edits = ClaimedEdits(NamedRegionLength)

\* C20: a call of rmutate with start = end, start inside the sequence, takes
\* the whole sequence as its region: once it returns it has made
\* floor((background_mutation + rate) * len(sequence)) edits.
C20_DegenerateRegionIsWhole ==
    (last.op = "rmutate" /\ last.start = last.end
        /\ last.start <= Len(last.before) /\ ~last.raised)
    => last.edits = ClaimedEdits(Len(last.before))

-----------------------------------------------------------------------------
(* SpecSelect: a population of organisms of fitness 1, 1/2 and 0, in       *)
(* numbers around prepopulation_control's thresholds, and one call of it.  *)

MaxOthers == 2

\* how many organisms of fitness 1 the collection holds
HighCounts == {0, 1, AdoptAbove - 1, AdoptAbove, AdoptAbove + 1,
               CapSize, CapTrigger, CapTrigger + 1}

Repeat(o, n) == [i \in 1..n |-> o]

NoSelection == [op |-> "none", before |-> <<>>, raised |-> FALSE]

SelectInit ==
    /\ lists = << <<1>>, <<1, 0>>, <<0>> >>
    /\ chromosomes = [c \in 1..3 |-> Chromosome(c, DefaultBase, DefaultBackground)]
    /\ organisms = [o \in 1..3 |-> Organism(<<o>>)]
    /\ status = ClassStatus
    /\ \E high \in HighCounts, mid \in 0..MaxOthers, low \in 0..MaxOthers :
          \/ PopulationInit(1, Repeat(1, high) \o Repeat(2, mid) \o Repeat(3, low))
          \/ PopulationInit(1, Repeat(3, low) \o Repeat(2, mid) \o Repeat(1, high))
    /\ last = NoSelection

\* population.prepopulation_control()
PrepopulationControlCall ==
    /\ last.op = "none"
    /\ \/ /\ Len(agents) = 0 \/ FitnessRaises
          /\ last' = [op |-> "prepopulation_control", before |-> agents,
                      raised |-> TRUE]
          /\ UNCHANGED agents
       \/ /\ Len(agents) > 0 /\ ~FitnessRaises
          /\ agents' \in prepopulation_control
          /\ last' = [op |-> "prepopulation_control", before |-> agents,
                      raised |-> FALSE]
    /\ UNCHANGED <<heap, status, goal, generation, pc, x, temp, trace, entry,
                   completed, outcome>>

SelectNext == PrepopulationControlCall

SpecSelect == SelectInit /\ [][SelectNext]_vars

\* the organisms of s whose fitness is strictly above the mean fitness of s
Retained(s) ==
    LET total == FSum([i \in 1..Len(s) |-> fitness(s[i]).value])
    IN  Select(s, [i \in 1..Len(s) |->
                      FGreater(FMul(fitness(s[i]).value, <<Len(s), 1>>), total)])

\* C13: prepopulation_control retains the organisms strictly above the mean
\* fitness; the collection becomes the retained ones if and only if they are
\* more than 20, and otherwise is exactly as before.
C13_AdoptsAboveTwenty ==
    (last.op = "prepopulation_control" /\ ~last.raised)
    => agents = (IF Len(Retained(last.before)) > 20
                 THEN Retained(last.before) ELSE last.before)

\* C14: whenever prepopulation_control retains more than 2000 organisms, the
\* collection it leaves has exactly 2000 organisms, each a retained one.
C14_CapAtTwoThousand ==
    (last.op = "prepopulation_control" /\ ~last.raised
        /\ Len(Retained(last.before)) > 2000)
    => /\ Len(agents) = 2000
       /\ Range(agents) \subseteq Range(Retained(last.before))

\* the sequence a crossover result describes
ProductSeq(result) ==
    IF result.isNew THEN result.sequence ELSE SeqOf(result.ref)

\* o carries one chromosome, the first product of a crossover between the
\* first chromosomes of two members of parents, cut within the first one
IsOffspringOf(o, parents) ==
    /\ Len(organisms[o].genome) = 1
    /\ \E i1, i2 \in 1..Len(parents) :
         LET c1 == organisms[parents[i1]].genome[1]
             c2 == organisms[parents[i2]].genome[1]
         IN  \E crossover_pt \in 0..Len(SeqOf(c1)) :
                SeqOf(organisms[o].genome[1])
                    = ProductSeq(crossover(c1, c2, crossover_pt)[1])

\* C15: when mating ends on a collection of n organisms it has run n rounds,
\* and the collection becomes 2n organisms: the n parents first, in their
\* order, then n offspring, each with one chromosome that is the first product
\* of a crossover of the first chromosomes of two of those parents.
C15_MatingAppendsOffspring ==
    [][(pc = "mating" /\ pc' = "postpopulation_control") =>
          /\ x = Len(agents)
          /\ Len(agents') = 2 * Len(agents)
          /\ SubSeq(agents', 1, Len(agents)) = agents
          /\ \A k \in (Len(agents) + 1)..Len(agents') :
                IsOffspringOf(agents'[k], agents)]_vars

\* mating has ended on two or more parents, and some offspring carries a
\* newly built chromosome whose sequence differs from the first parent's
C15_Witness ==
    /\ pc = "postpopulation_control"
    /\ x >= 2
    /\ Len(agents) = 2 * x
    /\ \E k \in (x + 1)..Len(agents) :
          /\ organisms[agents[k]].genome[1]
                \notin {organisms[agents[j]].genome[1] : j \in 1..x}
          /\ SeqOf(organisms[agents[k]].genome[1])
                # SeqOf(organisms[agents[1]].genome[1])

-----------------------------------------------------------------------------
(* SpecFreeze: a population of some size and one call of freeze.  A        *)
(* proportion is held in units of 1/RateUnit, like a rate.                 *)

\* below this size, or this size * proportion, freeze keeps everything
WholeBelow == 101
DefaultProportion == 100

\* the runs of draws random.randint(0, size - 1) is given: the x-th draw is
\* (first + stride * x) % size, for first and stride up to MaxStride
MaxStride == 2

Draws == {[first |-> a, stride |-> b] : a \in 0..MaxStride, b \in 0..MaxStride}

\* a slip: the proportion is used as given
clampNone(proportion) == proportion

\* if proportion > 1.0: proportion = 1.0
clamp(proportion) == IF proportion > RateUnit THEN RateUnit ELSE proportion

\* the sample freeze pickles and the sample size in the file's name, for
\* one run of draws
freeze(prefix, proportion, draw) ==
    LET proportion1 == clamp(proportion)
        size == Len(agents)
        sample ==
            IF Len(agents) < WholeBelow
               \/ Len(agents) * proportion1 < WholeBelow * RateUnit
            THEN agents
            ELSE [k \in 1..int(Len(agents) * proportion1) |->
                     agents[((draw.first + draw.stride * (k - 1)) % size) + 1]]
    IN  [name |-> <<prefix, generation, Len(sample), ".gap">>,
         sample |-> sample]

\* cPickle.dump(sample, f): the file holds the list and the objects it
\* reaches, instance attributes only (the class's status dict is not one)
dump(sample) ==
    [sample |-> sample, lists |-> lists, chromosomes |-> chromosomes,
     organisms |-> organisms]

\* cPickle.load(f): the list of the file over newly built objects, an object
\* the list reaches twice being built once
load(file) ==
    LET os == Range(file.sample)
        cs == UNION {Range(file.organisms[o].genome) : o \in os}
        ls == {file.chromosomes[c].sequence : c \in cs}
        newList(l) == Len(lists) + Rank(l, ls)
        newChromosome(c) == Len(chromosomes) + Rank(c, cs)
        newOrganism(o) == Len(organisms) + Rank(o, os)
    IN  [lists |-> lists \o [k \in 1..Cardinality(ls) |-> file.lists[Nth(k, ls)]],
         chromosomes |->
             chromosomes \o
             [k \in 1..Cardinality(cs) |->
                 [file.chromosomes[Nth(k, cs)] EXCEPT
                     !.sequence = newList(file.chromosomes[Nth(k, cs)].sequence)]],
         organisms |->
             organisms \o
             [k \in 1..Cardinality(os) |->
                 Organism([i \in 1..Len(file.organisms[Nth(k, os)].genome) |->
                              newChromosome(file.organisms[Nth(k, os)].genome[i])])],
         sample |-> [i \in 1..Len(file.sample) |-> newOrganism(file.sample[i])]]

\* the collection revive leaves, given the list it loaded
revive(loaded, type) ==
    IF type = "replace" THEN loaded
    ELSE IF type = "add" THEN agents \o loaded
    ELSE agents

FreezeSizes == {0, 1, 50, WholeBelow - 1, WholeBelow, WholeBelow + 1,
                2 * WholeBelow - 1, 2 * WholeBelow, 2 * WholeBelow + 1,
                4 * WholeBelow, 10000}

Proportions == {DefaultProportion, RateUnit \div 4, RateUnit \div 2, RateUnit,
                RateUnit + RateUnit \div 2}

NoFreeze == [op |-> "none", proportion |-> 0, before |-> <<>>,
             generation |-> 0, name |-> <<>>, sample |-> <<>>,
             file |-> <<>>, type |-> ""]

FreezeInit ==
    /\ lists = << <<1>>, <<0>> >>
    /\ chromosomes = [c \in 1..2 |-> Chromosome(c, DefaultBase, DefaultBackground)]
    /\ organisms = [o \in 1..2 |-> Organism(<<o>>)]
    /\ status = ClassStatus
    /\ \E size \in FreezeSizes :
          PopulationInit(1, [i \in 1..size |-> 1 + (i % 2)])
    /\ last = NoFreeze

\* population.freeze(prefix, proportion)
FreezeCall ==
    \E proportion \in Proportions, draw \in Draws :
        /\ last.op = "none"
        /\ LET written == freeze("pop", proportion, draw)
           IN  last' = [op |-> "freeze", proportion |-> proportion,
                        before |-> agents, generation |-> generation,
                        name |-> written.name, sample |-> written.sample,
                        file |-> dump(written.sample), type |-> ""]
        /\ UNCHANGED <<heap, status, population>>

\* population.revive(filename, type) of the file the freeze call wrote
ReviveCall ==
    \E type \in {"replace", "add"} :
        /\ last.op = "freeze"
        /\ LET loaded == load(last.file)
           IN  /\ lists' = loaded.lists
               /\ chromosomes' = loaded.chromosomes
               /\ organisms' = loaded.organisms
               /\ agents' = revive(loaded.sample, type)
        /\ last' = [last EXCEPT !.op = "revive", !.type = type]
        /\ UNCHANGED <<status, goal, generation, pc, x, temp, trace, entry,
                       completed, outcome>>

FreezeNext == FreezeCall \/ ReviveCall

SpecFreeze == FreezeInit /\ [][FreezeNext]_vars

C17_TenThousandGivesHundred ==
    (last.op = "freeze" /\ Len(last.before) = 10000
        /\ last.proportion = DefaultProportion)
    => Len(last.sample) = 100 /\ last.name[3] = 100

\* C18: for a non-empty population whose goal is 0, no generation_step call
\* returns a report: when the call comes to report, report raises (the
\* division by the goal) and the call ends with that error.
C18_ZeroGoalNeverReports ==
    /\ [](goal = 0 /\ Len(agents) > 0 => outcome.kind # "report")
    /\ [][(pc = "report" /\ goal = 0 /\ Len(agents) > 0) =>
             (pc' = "idle" /\ outcome'.kind = "raised")]_vars

\* a call on a non-empty population with goal 0 has run every phase up to
\* report and has ended there with the error
C18_Witness ==
    /\ goal = 0
    /\ Len(agents) > 0
    /\ pc = "idle"
    /\ outcome.kind = "raised"
    /\ trace = ExpectedPhases(entry)
    /\ ~FitnessRaises

\* C21: kmutate('point') with a position start inside the sequence and a
\* symbol leaves the length as it was, makes the symbol at start the given
\* one, and leaves every other position as it was.
C21_KmutatePointFrame ==
    (last.op = "kmutate" /\ last.type = "point"
        /\ last.start < Len(last.before))
    => /\ ~last.raised
       /\ Len(SeqOf(1)) = Len(last.before)
       /\ SeqOf(1)[last.start + 1] = last.symbol
       /\ \A i \in 1..Len(last.before) :
             i # last.start + 1 => SeqOf(1)[i] = last.before[i]

\* a point mutation past the front of the sequence that changed the symbol
C21_Witness ==
    /\ last.op = "kmutate" /\ last.type = "point"
    /\ last.start > 0 /\ last.start < Len(last.before)
    /\ last.before[last.start + 1] # last.symbol
    /\ SeqOf(1)[last.start + 1] = last.symbol

\* s with its sub-range [from, to) in reverse order
Reversed(s, from, to) ==
    Head_(s, from) \o reverse(slice(s, from, to)) \o Tail_(s, to)

\* C22: a pass of rmutate of kind 'invert' leaves the sequence with the
\* sub-range [position, end_pos) in reverse order: same length, the symbols
\* outside as they were.
C22_RmutateInvertReverses ==
    (last.op = "invert" /\ ~last.raised)
    => SeqOf(1) = Reversed(last.before, last.position, last.end_pos)

\* C23: kmutate('invert', start, end) with 0 <= start <= end <= len leaves
\* the sequence with the sub-range [start, end) in reverse order: same
\* length, the symbols outside as they were.
C23_KmutateInvertReverses ==
    (last.op = "kmutate" /\ last.type = "invert" /\ last.start <= last.end)
    => /\ ~last.raised
       /\ SeqOf(1) = Reversed(last.before, last.start, last.end)

\* C24: kmutate('duplicate', start, end) on s leaves
\* s[:end+1] + s[start:end+1] + s[end+1:].
C24_KmutateDuplicateAfterRange ==
    (last.op = "kmutate" /\ last.type = "duplicate" /\ last.start <= last.end
        /\ last.end < Len(last.before))
    => /\ ~last.raised
       /\ SeqOf(1) = Head_(last.before, last.end + 1)
                     \o slice(last.before, last.start, last.end + 1)
                     \o Tail_(last.before, last.end + 1)

-----------------------------------------------------------------------------
(* SpecAlphabet: the populations of Spec under generation_step, and the    *)
(* lone chromosomes of SpecMutate under rmutate calls of any kind.         *)

AlphabetInit == Init \/ MutateInit

\* chromosome.rmutate(...) on a chromosome that was built on its own
LoneRmutate == last = NoMutation /\ RmutateAny

AlphabetNext == Next \/ LoneRmutate

SpecAlphabet == AlphabetInit /\ [][AlphabetNext]_vars

\* C25: with every chromosome on one alphabet and every symbol in it at the
\* start, after any number of generation_step calls and after any rmutate
\* call of any kind every symbol of every chromosome belongs to the
\* chromosome's alphabet.
C25_AlphabetMembership ==
    \A c \in 1..Len(chromosomes) :
        Range(SeqOf(c)) \subseteq Range(chromosomes[c].base)

\* a generation_step call has returned and left a sequence no initial
\* organism carried
C25_Witness ==
    /\ pc = "idle"
    /\ completed >= 1
    /\ \E c \in 1..Len(chromosomes) :
          /\ SeqOf(c) \notin PopSequences
          /\ \E o \in Range(agents) : c \in Range(organisms[o].genome)

\* C26: a setStatus call on one organism leaves every status field of every
\* other organism (alive, vitality, age, lifespan, fitness, death) as it was.
C26_StatusOwned ==
    [][last'.op = "setStatus" =>
          \A o \in 1..Len(organisms) :
              o # last'.target => StatusOf(o)' = StatusOf(o)]_vars

\* C27: in every status reached from a fresh organism by setStatus calls, an
\* organism whose alive flag is True has age strictly below lifespan.
C27_AliveBelowLifespan ==
    \A o \in 1..Len(organisms) :
        StatusOf(o).alive => StatusOf(o).age < StatusOf(o).lifespan

\* what a collection holds: the sequences of each member's genome, in order
Contents(s) == [i \in 1..Len(s) |-> GenomeSeqs(s[i])]

\* C28: freeze with proportion 1.0, then revive of that file with type
\* 'replace', leaves the collection that was frozen, member for member in the
\* same order, whatever its size, and the generation counter as it was.
C28_FreezeReviveRoundTrip ==
    (last.op = "revive" /\ last.type = "replace"
        /\ last.proportion = RateUnit)
    => /\ Contents(agents) = Contents(last.before)
       /\ generation = last.generation

=============================================================================
